---- MODULE Spec2Model ----
(***************************************************************************)
(* htr-search: incremental indexing of PageXML text lines into a Whoosh    *)
(* index (src/indexer.py, src/pagexml_parser.py) and the query, grouping   *)
(* and highlighting path of the viewer (src/indexer.py, src/gui.py).       *)
(*                                                                         *)
(* Text is a sequence of one-character strings, so that tokenising, case   *)
(* folding, HTML escaping and word boundaries are computed, not assumed.   *)
(***************************************************************************)
EXTENDS Integers, Sequences, FiniteSets, Bags, TLC

\* Number of modifications the environment makes to the corpus.
MaxTime == 2

\* Longest list of hits handed to group_lines_by_document.
MaxHits == 5

\* Longest list of matched terms handed to highlight_matched_terms.
MaxTerms == 2

(***************************************************************************)
(* Characters and strings                                                  *)
(***************************************************************************)
UpperChars == <<"A","B","C","D","E","F","G","H","I","J","K","L","M",
                "N","O","P","Q","R","S","T","U","V","W","X","Y","Z">>

LowerChars == <<"a","b","c","d","e","f","g","h","i","j","k","l","m",
                "n","o","p","q","r","s","t","u","v","w","x","y","z">>

DigitChars == <<"0","1","2","3","4","5","6","7","8","9">>

Range(s) == {s[i] : i \in DOMAIN s}

\* str.lower() on one character.
lower(c) ==
    IF \E i \in DOMAIN UpperChars : UpperChars[i] = c
    THEN LowerChars[CHOOSE i \in DOMAIN UpperChars : UpperChars[i] = c]
    ELSE c

LowerStr(s) == [i \in DOMAIN s |-> lower(s[i])]

\* The regular expression class \w.
WordChars == Range(UpperChars) \cup Range(LowerChars) \cup Range(DigitChars) \cup {"_"}

IsWordChar(c) == c \in WordChars

IsSpace(c) == c \in {" ", "\t", "\n"}

\* str.strip(): leading and trailing whitespace removed.
RECURSIVE LStrip(_)
LStrip(s) == IF s # <<>> /\ IsSpace(Head(s)) THEN LStrip(Tail(s)) ELSE s

RECURSIVE RStrip(_)
RStrip(s) ==
    IF s # <<>> /\ IsSpace(s[Len(s)]) THEN RStrip(SubSeq(s, 1, Len(s) - 1)) ELSE s

strip(s) == RStrip(LStrip(s))

\* str(n) for an integer.
RECURSIVE NatStr(_)
NatStr(n) == IF n < 10 THEN <<DigitChars[n + 1]>>
             ELSE NatStr(n \div 10) \o <<DigitChars[(n % 10) + 1]>>

IntStr(n) == IF n < 0 THEN <<"-">> \o NatStr(0 - n) ELSE NatStr(n)

\* str(p) for a tuple of integers p, e.g. (0, 10).
RECURSIVE TupleItems(_)
TupleItems(p) ==
    IF p = <<>> THEN <<>>
    ELSE IF Len(p) = 1 THEN IntStr(p[1])
    ELSE IntStr(Head(p)) \o <<",", " ">> \o TupleItems(Tail(p))

TupleStr(p) ==
    IF Len(p) = 1 THEN <<"(">> \o IntStr(p[1]) \o <<",", ")">>
    ELSE <<"(">> \o TupleItems(p) \o <<")">>

\* sep.join(parts)
RECURSIVE Join(_, _)
Join(sep, parts) ==
    IF parts = <<>> THEN <<>>
    ELSE IF Len(parts) = 1 THEN parts[1]
    ELSE parts[1] \o sep \o Join(sep, Tail(parts))

(***************************************************************************)
(* generate_line_id                                                        *)
(***************************************************************************)
\* hashlib.sha256(...).hexdigest(): the digest is kept symbolic, one digest
\* per input string.
sha256_hexdigest(s) == [sha256 |-> s]

coords_str(coords) == Join(<<"_">>, [i \in DOMAIN coords |-> TupleStr(coords[i])])

\* The id made of the digest of the coords alone.
generate_line_id_of_coords(doc_path, coords) ==
    [path |-> "", hash |-> sha256_hexdigest(coords_str(coords))]

\* f"{doc_path}_{coords_hash}": the path and the fixed-width digest.
generate_line_id(doc_path, coords) ==
    [path |-> doc_path, hash |-> sha256_hexdigest(coords_str(coords))]

(***************************************************************************)
(* The analyzer of the content field: TEXT() of the schema analyses with   *)
(* whoosh's StandardAnalyzer, i.e. a word tokenizer, a lowercase filter    *)
(* and a stop filter that drops stop words and tokens shorter than minsize.*)
(***************************************************************************)
minsize == 2

Chars(str) == CASE str = "the" -> <<"t","h","e">>
                [] str = "and" -> <<"a","n","d">>
                [] str = "not" -> <<"n","o","t">>
                [] str = "or" -> <<"o","r">>
                [] str = "to" -> <<"t","o">>
                [] str = "of" -> <<"o","f">>
                [] str = "in" -> <<"i","n">>
                [] str = "is" -> <<"i","s">>
                [] str = "a" -> <<"a">>
                [] str = "hello" -> <<"h","e","l","l","o">>
                [] str = "Hello" -> <<"H","e","l","l","o">>
                [] str = "world" -> <<"w","o","r","l","d">>
                [] str = "goodbye" -> <<"g","o","o","d","b","y","e">>
                [] str = "hello world" -> <<"h","e","l","l","o"," ","w","o","r","l","d">>
                [] str = "goodbye world" ->
                       <<"g","o","o","d","b","y","e"," ","w","o","r","l","d">>
                [] str = " Hello the " -> <<" ","H","e","l","l","o"," ","t","h","e"," ">>

STOP_WORDS == {Chars("the"), Chars("and"), Chars("not"), Chars("or"), Chars("to"),
               Chars("of"), Chars("in"), Chars("is"), Chars("a")}

\* RegexTokenizer: the maximal runs of word characters, in order.
RECURSIVE TokenizeFrom(_, _, _)
TokenizeFrom(s, i, cur) ==
    LET flush == IF cur = <<>> THEN <<>> ELSE <<cur>>
    IN  IF i > Len(s) THEN flush
        ELSE IF IsWordChar(s[i]) THEN TokenizeFrom(s, i + 1, Append(cur, s[i]))
        ELSE flush \o TokenizeFrom(s, i + 1, <<>>)

Tokenize(s) == TokenizeFrom(s, 1, <<>>)

KeptByStopFilter(t) == Len(t) >= minsize /\ t \notin STOP_WORDS

\* The index terms of a text: tokenised, lowercased, stop-filtered.
StandardAnalyzer(s) ==
    LET toks == Tokenize(s)
        low  == [i \in DOMAIN toks |-> LowerStr(toks[i])]
    IN  SelectSeq(low, KeptByStopFilter)

\* The contents and queries of the runs explored, analysed once.
KnownTexts == {Chars("hello world"), Chars("goodbye world"), strip(Chars(" Hello the ")),
               Chars("hello"), Chars("world"), Chars("goodbye"), Chars("Hello"),
               Chars("the")}

Analyzed == [t \in KnownTexts |-> StandardAnalyzer(t)]

Analyze(s) == IF s \in KnownTexts THEN Analyzed[s] ELSE StandardAnalyzer(s)

(***************************************************************************)
(* The corpus: PageXML files and page images on disk                       *)
(***************************************************************************)
Docs == {"d1.xml", "d2.xml"}

\* os.walk lists the directory in one fixed order.
WalkOrder == <<"d1.xml", "d2.xml">>

ImageOf(d) == IF d = "d1.xml" THEN "d1.jpg" ELSE "d2.jpg"

PolyA == << <<0, 0>>, <<10, 10>> >>
PolyB == << <<0, 20>>, <<10, 30>> >>
PolyC == << <<0, 40>>, <<10, 50>> >>

TextLine(points, unicode) == [points |-> points, unicode |-> unicode]

\* What a .xml file may hold: a well-formed page with its TextLine elements
\* (points: the Coords attribute, empty when missing), or malformed XML.
\* "edited" is "page" with the text of its first line changed and its
\* second line segmented anew, at another polygon.
FileContent(v) ==
    CASE v = "page" ->
           [wellformed |-> TRUE,
            textlines |-> << TextLine(PolyA, Chars("hello world")),
                             TextLine(PolyB, Chars("goodbye world")) >>]
      [] v = "edited" ->
           [wellformed |-> TRUE,
            textlines |-> << TextLine(PolyA, Chars(" Hello the ")),
                             TextLine(PolyC, Chars("goodbye world")) >>]
      [] v = "nocoords" ->
           [wellformed |-> TRUE,
            textlines |-> << TextLine(<<>>, Chars("hello")),
                             TextLine(<<>>, Chars("world")) >>]
      [] v = "nocoords2" ->
           [wellformed |-> TRUE,
            textlines |-> << TextLine(<<>>, Chars("goodbye")),
                             TextLine(<<>>, Chars("world")) >>]
      [] v = "nolines" -> [wellformed |-> TRUE, textlines |-> <<>>]
      [] v = "malformed" -> [wellformed |-> FALSE, textlines |-> <<>>]

Versions == {"page", "edited", "nocoords", "nocoords2", "nolines", "malformed"}

\* The contents each file takes in the runs explored.
VersionsOf(d) == IF d = "d1.xml" THEN {"page", "edited", "malformed"}
                 ELSE {"nocoords", "nocoords2", "nolines"}

Absent == "absent"

(***************************************************************************)
(* parse_pagexml                                                           *)
(***************************************************************************)
\* etree.parse raises on malformed XML.
parse_raises(v) == ~FileContent(v).wellformed

parse_pagexml(v) ==
    LET tls == FileContent(v).textlines
    IN  [i \in DOMAIN tls |->
            [coords |-> tls[i].points, transcription |-> strip(tls[i].unicode)]]

(***************************************************************************)
(* State                                                                   *)
(***************************************************************************)
VARIABLES
    \* the corpus on disk
    files,              \* xml path -> what the file holds, or Absent
    mtime,              \* xml path -> os.path.getmtime
    now,                \* the clock that stamps modifications
    images,             \* xml paths whose basename has a page image
    \* the index directory
    indexExists,        \* exists_in(index_dir)
    store,              \* committed records of the index (a bag)
    lockHeld,           \* the index's write lock is taken
    metaFile,           \* index_meta.json
    \* update_index and get_lines_from_documents, the running pass
    pc, error,
    xml_paths, xmlIdx, image_dict, documents,
    meta, new_meta, docIdx,
    new_doc_counter, skipped_doc_counter, new_line_counter,
    pendingDel, pendingAdd,     \* the writer's buffered deletions and additions
    \* what the running pass has done so far
    parsed, parse_errors, upserted, skipped, saved, storeBefore, metaBefore, quiet,
    twoInRow,
    \* search_index
    query, hits,
    \* group_lines_by_document and the sort of perform_search
    matching_lines, grouped_lines, sorted_documents,
    \* highlight_matched_terms
    hl_text, hl_terms, highlighted_text,
    \* generate_line_id: two calls, their arguments and the ids returned
    id_args, line_ids

envVars == <<files, mtime, now, images>>
indexVars == <<indexExists, store, lockHeld, metaFile>>
passVars == <<pc, error, xml_paths, xmlIdx, image_dict, documents, meta, new_meta, docIdx,
              new_doc_counter, skipped_doc_counter, new_line_counter,
              pendingDel, pendingAdd>>
traceVars == <<parsed, parse_errors, upserted, skipped, saved, storeBefore, metaBefore,
               quiet, twoInRow>>
searchVars == <<query, hits>>
groupVars == <<matching_lines, grouped_lines, sorted_documents>>
hlVars == <<hl_text, hl_terms, highlighted_text>>
idVars == <<id_args, line_ids>>

vars == <<envVars, indexVars, passVars, traceVars, searchVars, groupVars, hlVars, idVars>>

(***************************************************************************)
(* Dictionaries, bags                                                      *)
(***************************************************************************)
EmptyDict == <<>>

DictSet(m, k, v) == [x \in (DOMAIN m) \cup {k} |-> IF x = k THEN v ELSE m[x]]

BagSelect(B, Keep(_)) == [r \in {x \in DOMAIN B : Keep(x)} |-> B[r]]

BagAdd(B, r) == B (+) SetToBag({r})

(***************************************************************************)
(* index_meta.json                                                         *)
(***************************************************************************)
NoMetaFile == [state |-> "absent", data |-> EmptyDict]

\* open(meta_path, "w"): the file exists and is empty until json.dump has
\* written the mapping and the file is closed.
TruncatedMetaFile == [state |-> "partial", data |-> EmptyDict]

WrittenMetaFile(m) == [state |-> "complete", data |-> m]

\* json.load raises on an empty or cut-off file.
load_raises(f) == f.state = "partial"

load_index_meta(f) == IF f.state = "absent" THEN EmptyDict ELSE f.data

(***************************************************************************)
(* The writer of the index                                                 *)
(***************************************************************************)
Record(doc_path, line_id, content, coords, image_path) ==
    [doc_path |-> doc_path, line_id |-> line_id, content |-> content,
     coords |-> coords, image_path |-> image_path]

\* writer.update_document: line_id is a unique field, so the committed
\* records with this line_id are marked deleted; the new record is added to
\* the writer's segment.  Records added earlier by the same writer are not
\* replaced.
update_document(w, rec) ==
    [del |-> w.del \cup {rec.line_id}, add |-> BagAdd(w.add, rec)]

\* A commit that also drops every record of a document the writer has
\* added records for.
CommittedReconciled(st, w) ==
    LET Kept(r) == r.line_id \notin w.del
                   /\ r.doc_path \notin {a.doc_path : a \in DOMAIN w.add}
    IN  BagSelect(st, Kept) (+) w.add

\* writer.commit(): deletions and additions become visible together.
Committed(st, w) ==
    LET Kept(r) == r.line_id \notin w.del
    IN  BagSelect(st, Kept) (+) w.add

\* The loop of lines 189-204 ending one line early.
RECURSIVE UpsertLinesButLast(_, _, _, _)
UpsertLinesButLast(w, doc, lines, i) ==
    IF i >= Len(lines) THEN w
    ELSE LET content == lines[i].transcription
             coords  == lines[i].coords
             line_id == generate_line_id(doc.path, coords)
         IN  UpsertLinesButLast(update_document(w, Record(doc.path, line_id, content,
                                                          coords, doc.image_path)),
                                doc, lines, i + 1)

\* The lines 188-204 of update_index: every line of one document upserted.
RECURSIVE UpsertLines(_, _, _, _)
UpsertLines(w, doc, lines, i) ==
    IF i > Len(lines) THEN w
    ELSE LET content == lines[i].transcription
             coords  == lines[i].coords
             line_id == generate_line_id(doc.path, coords)
         IN  UpsertLines(update_document(w, Record(doc.path, line_id, content, coords,
                                                   doc.image_path)),
                         doc, lines, i + 1)

\* The test of line 182 with > for >=: a file as old as its entry is indexed
\* again.
UnchangedOnlyIfOlder(m, doc_path, last_modified) ==
    doc_path \in DOMAIN m /\ m[doc_path] > last_modified

\* The test of line 182.
Unchanged(m, doc_path, last_modified) ==
    doc_path \in DOMAIN m /\ m[doc_path] >= last_modified

(***************************************************************************)
(* update_index: one build pass, step by step                              *)
(***************************************************************************)
\* query and hits hold the call of search_index that has just returned.
NoQuery == <<>>

Returned == query' = NoQuery /\ hits' = EmptyBag

Resting == pc \in {"idle", "done", "failed"}

\* An exception leaves update_index: its locals are gone with its frame.
Raise(e) ==
    /\ pc' = "failed" /\ error' = e
    /\ xml_paths' = <<>> /\ xmlIdx' = 1 /\ image_dict' = EmptyDict /\ documents' = <<>>
    /\ meta' = EmptyDict /\ new_meta' = EmptyDict /\ docIdx' = 1
    /\ new_doc_counter' = 0 /\ skipped_doc_counter' = 0 /\ new_line_counter' = 0
    /\ pendingDel' = {} /\ pendingAdd' = EmptyBag

KeepLocals ==
    UNCHANGED <<xml_paths, xmlIdx, image_dict, documents, meta, new_meta, docIdx,
                new_doc_counter, skipped_doc_counter, new_line_counter,
                pendingDel, pendingAdd>>

\* Lines 160-162 and 99-124: the index is opened or created, the directory is listed
\* and the images are matched; with no .xml file the pass returns at once.
StartPass ==
    /\ Resting
    /\ indexExists' = TRUE
    /\ xml_paths' = SelectSeq(WalkOrder, LAMBDA d : files[d] # Absent)
    /\ image_dict' = IF xml_paths' = <<>> THEN EmptyDict ELSE [d \in images |-> ImageOf(d)]
    /\ pc' = IF xml_paths' = <<>> THEN "done" ELSE "parse"
    /\ error' = "none"
    /\ xmlIdx' = 1 /\ documents' = <<>>
    /\ meta' = EmptyDict /\ new_meta' = EmptyDict /\ docIdx' = 1
    /\ new_doc_counter' = 0 /\ skipped_doc_counter' = 0 /\ new_line_counter' = 0
    /\ pendingDel' = {} /\ pendingAdd' = EmptyBag
    /\ parsed' = {} /\ parse_errors' = {} /\ upserted' = {} /\ skipped' = {}
    /\ saved' = FALSE
    /\ storeBefore' = store /\ metaBefore' = metaFile
    /\ twoInRow' = (pc = "done" /\ quiet) /\ quiet' = TRUE
    /\ Returned
    /\ UNCHANGED <<envVars, store, lockHeld, metaFile, groupVars, hlVars, idVars>>

\* The parsing loop without its try/except: a file that cannot be parsed
\* ends the pass.
ParseDocAborting ==
    /\ pc = "parse"
    /\ LET xml_path == xml_paths[xmlIdx]
           v == files[xml_path]
           fails == v = Absent \/ parse_raises(v)
           lines == IF fails THEN <<>> ELSE parse_pagexml(v)
       IN  /\ parsed' = parsed \cup {xml_path}
           /\ parse_errors' = IF fails THEN parse_errors \cup {xml_path} ELSE parse_errors
           /\ IF fails
              THEN Raise("XMLSyntaxError")
              ELSE /\ documents' =
                        IF lines # <<>> /\ xml_path \in DOMAIN image_dict
                        THEN Append(documents, [path |-> xml_path,
                                                image_path |-> image_dict[xml_path],
                                                lines |-> lines])
                        ELSE documents
                   /\ xmlIdx' = xmlIdx + 1
                   /\ pc' = IF xmlIdx < Len(xml_paths) THEN "parse"
                            ELSE IF documents' = <<>> THEN "done" ELSE "load"
                   /\ UNCHANGED <<error, xml_paths, image_dict, meta, new_meta, docIdx,
                                  new_doc_counter, skipped_doc_counter, new_line_counter,
                                  pendingDel, pendingAdd>>
    /\ Returned
    /\ UNCHANGED <<envVars, indexVars, upserted, skipped, saved, storeBefore,
                   metaBefore, quiet, twoInRow, groupVars, hlVars, idVars>>

\* Lines 127-147: one turn of the parsing loop.  A file that cannot be
\* parsed is logged and left out; so is one without lines or without image.
ParseDoc ==
    /\ pc = "parse"
    /\ LET xml_path == xml_paths[xmlIdx]
           v == files[xml_path]
           fails == v = Absent \/ parse_raises(v)
           lines == IF fails THEN <<>> ELSE parse_pagexml(v)
       IN  /\ parsed' = parsed \cup {xml_path}
           /\ parse_errors' = IF fails THEN parse_errors \cup {xml_path} ELSE parse_errors
           /\ documents' =
                IF lines # <<>> /\ xml_path \in DOMAIN image_dict
                THEN Append(documents, [path |-> xml_path,
                                        image_path |-> image_dict[xml_path],
                                        lines |-> lines])
                ELSE documents
    /\ xmlIdx' = xmlIdx + 1
    /\ pc' = IF xmlIdx < Len(xml_paths) THEN "parse"
             ELSE IF documents' = <<>> THEN "done" ELSE "load"
    /\ Returned
    /\ UNCHANGED <<envVars, indexVars, error, xml_paths, image_dict, meta, new_meta, docIdx,
                   new_doc_counter, skipped_doc_counter, new_line_counter,
                   pendingDel, pendingAdd, upserted, skipped, saved, storeBefore,
                   metaBefore, quiet, twoInRow, groupVars, hlVars, idVars>>

\* Line 169.
LoadMeta ==
    /\ pc = "load"
    /\ IF load_raises(metaFile)
       THEN Raise("JSONDecodeError")
       ELSE /\ pc' = "writer" /\ meta' = load_index_meta(metaFile)
            /\ UNCHANGED <<error, xml_paths, xmlIdx, image_dict, documents, new_meta,
                           docIdx, new_doc_counter, skipped_doc_counter,
                           new_line_counter, pendingDel, pendingAdd>>
    /\ Returned
    /\ UNCHANGED <<envVars, indexVars, traceVars, groupVars, hlVars, idVars>>

\* Line 176: ix.writer() takes the write lock of the index, or raises.
OpenWriter ==
    /\ pc = "writer"
    /\ IF lockHeld
       THEN Raise("LockError") /\ UNCHANGED lockHeld
       ELSE pc' = "index" /\ lockHeld' = TRUE /\ UNCHANGED error /\ KeepLocals
    /\ Returned
    /\ UNCHANGED <<envVars, indexExists, store, metaFile, traceVars, groupVars, hlVars, idVars>>

\* Lines 178-208: one turn of the indexing loop.
IndexDoc ==
    /\ pc = "index"
    /\ LET doc == documents[docIdx]
           doc_path == doc.path
           last_modified == mtime[doc_path]
           w == UpsertLines([del |-> pendingDel, add |-> pendingAdd], doc, doc.lines, 1)
       IN  IF files[doc_path] = Absent
           THEN \* os.path.getmtime raises; nothing closes the writer
                /\ Raise("FileNotFoundError")
                /\ UNCHANGED <<upserted, skipped>>
           ELSE /\ IF Unchanged(meta, doc_path, last_modified)
                   THEN /\ new_meta' = DictSet(new_meta, doc_path, meta[doc_path])
                        /\ skipped_doc_counter' = skipped_doc_counter + 1
                        /\ skipped' = skipped \cup {doc_path}
                        /\ UNCHANGED <<new_doc_counter, new_line_counter, pendingDel,
                                       pendingAdd, upserted>>
                   ELSE /\ pendingDel' = w.del
                        /\ pendingAdd' = w.add
                        /\ new_line_counter' = new_line_counter + Len(doc.lines)
                        /\ new_doc_counter' = new_doc_counter + 1
                        /\ new_meta' = DictSet(new_meta, doc_path, last_modified)
                        /\ upserted' = upserted \cup {doc_path}
                        /\ UNCHANGED <<skipped_doc_counter, skipped>>
                /\ docIdx' = docIdx + 1
                /\ pc' = IF docIdx < Len(documents) THEN "index" ELSE "commit"
                /\ UNCHANGED <<error, xml_paths, xmlIdx, image_dict, documents, meta>>
    /\ Returned
    /\ UNCHANGED <<envVars, indexVars,
                   parsed, parse_errors, saved, storeBefore, metaBefore, quiet, twoInRow,
                   groupVars, hlVars, idVars>>

\* The metadata is saved whatever the pass has indexed.
SavesAlways(counter) == TRUE

\* Line 211: the metadata is saved when the pass has indexed a document.
SavesMeta(counter) == counter # 0

\* Line 210, the commit goes through; lines 211-219 choose whether to save.
CommitOk ==
    /\ pc = "commit"
    /\ store' = Committed(store, [del |-> pendingDel, add |-> pendingAdd])
    /\ lockHeld' = FALSE
    /\ pc' = IF SavesMeta(new_doc_counter) THEN "save" ELSE "done"
    /\ Returned
    /\ UNCHANGED <<envVars, indexExists, metaFile, error, xml_paths, xmlIdx, image_dict,
                   documents, meta, new_meta, docIdx, new_doc_counter, skipped_doc_counter,
                   new_line_counter, pendingDel, pendingAdd, traceVars,
                   groupVars, hlVars, idVars>>

\* update_index with the metadata saved before the commit, and the commit
\* failing.
CommitFailAfterSave ==
    /\ pc = "commit"
    /\ metaFile' = IF SavesMeta(new_doc_counter) THEN WrittenMetaFile(new_meta) ELSE metaFile
    /\ Raise("WriteError")
    /\ lockHeld' \in BOOLEAN
    /\ Returned
    /\ UNCHANGED <<envVars, indexExists, store, traceVars, groupVars, hlVars, idVars>>

\* Line 210, the storage rejects the transaction: commit raises and
\* update_index ends there.  update_index never cancels the writer; whether
\* the failed commit has let go of the lock is the library's affair.
CommitFail ==
    /\ pc = "commit"
    /\ Raise("WriteError")
    /\ lockHeld' \in BOOLEAN
    /\ Returned
    /\ UNCHANGED <<envVars, indexExists, store, metaFile, traceVars, groupVars, hlVars, idVars>>

\* save_index_meta, line 40: open(meta_path, "w") empties the file.
SaveOpen ==
    /\ pc = "save"
    /\ metaFile' = TruncatedMetaFile
    /\ pc' = "dump"
    /\ Returned
    /\ UNCHANGED <<envVars, indexExists, store, lockHeld, error, xml_paths, xmlIdx,
                   image_dict, documents, meta, new_meta, docIdx, new_doc_counter,
                   skipped_doc_counter, new_line_counter, pendingDel, pendingAdd,
                   traceVars, groupVars, hlVars, idVars>>

\* save_index_meta, line 41 and the end of the with block: the mapping is
\* written and the file closed.
SaveDump ==
    /\ pc = "dump"
    /\ metaFile' = WrittenMetaFile(new_meta)
    /\ saved' = TRUE
    /\ pc' = "done"
    /\ Returned
    /\ UNCHANGED <<envVars, indexExists, store, lockHeld, error, xml_paths, xmlIdx,
                   image_dict, documents, meta, new_meta, docIdx, new_doc_counter,
                   skipped_doc_counter, new_line_counter, pendingDel, pendingAdd,
                   parsed, parse_errors, upserted, skipped, storeBefore, metaBefore, quiet,
                   twoInRow, groupVars, hlVars, idVars>>

\* The process ends, by itself after a pass or killed in the middle of
\* save_index_meta; the operating system releases the write lock.  (A kill
\* at another point of the pass leaves the disk as a raise there does.)
ProcessExit ==
    /\ pc = "dump" \/ (Resting /\ lockHeld)
    /\ lockHeld' = FALSE
    /\ IF Resting THEN UNCHANGED <<pc, error>> /\ KeepLocals ELSE Raise("killed")
    /\ Returned
    /\ UNCHANGED <<envVars, indexExists, store, metaFile, traceVars, groupVars, hlVars, idVars>>

\* optimize_index, lines 303-305: ix.optimize() opens a writer and commits it
\* with nothing buffered, merging the segments of the index; the records
\* marked deleted are dropped from the disk, the others are kept.  With no
\* index (line 308) or with the write lock taken (ix.optimize() raises)
\* the call changes nothing.
Optimize ==
    /\ Resting
    /\ indexExists /\ ~lockHeld
    /\ store' = Committed(store, [del |-> {}, add |-> EmptyBag])
    /\ Returned
    /\ UNCHANGED <<envVars, indexExists, lockHeld, metaFile, passVars, traceVars,
                   groupVars, hlVars, idVars>>

(***************************************************************************)
(* The environment: files and images come, change and go                   *)
(***************************************************************************)
\* A .xml file is written (created or modified, its mtime is the clock) or
\* deleted.  The pass reads the files while it parses and while it indexes;
\* a change made at another step of the pass is the same change made at
\* the pass's next such step, or after the pass.
Touch(d, v) ==
    /\ now < MaxTime
    /\ Resting \/ pc \in {"parse", "index"}
    /\ v \in VersionsOf(d) \cup {Absent}
    /\ v # files[d] \/ v # Absent
    /\ now' = now + 1
    /\ files' = [files EXCEPT ![d] = v]
    /\ mtime' = [mtime EXCEPT ![d] = now']
    /\ quiet' = FALSE
    /\ Returned
    /\ UNCHANGED <<images, indexVars, passVars, parsed, parse_errors, upserted, skipped, saved,
                   storeBefore, metaBefore, twoInRow, groupVars, hlVars, idVars>>

(***************************************************************************)
(* search_index                                                            *)
(***************************************************************************)
Hit(r, matched_terms) ==
    [doc_path |-> r.doc_path, line_id |-> r.line_id, content |-> r.content,
     matched_terms |-> matched_terms, coords |-> r.coords, image_path |-> r.image_path]

RecordOf(h) == Record(h.doc_path, h.line_id, h.content, h.coords, h.image_path)

\* search_index with the searcher's default limit in place of limit=None,
\* here a limit of one hit.
search_index_limited(exists, st, query_str) ==
    LET terms == Analyze(query_str)
        Matches(r) == terms[1] \in Range(Analyze(r.content))
        found == BagSelect(st, Matches)
        top == IF DOMAIN found = {} THEN {} ELSE {CHOOSE r \in DOMAIN found : TRUE}
    IN  IF ~exists \/ terms = <<>> THEN EmptyBag
        ELSE [h \in {Hit(r, <<terms[1]>>) : r \in top} |-> 1]

\* A query of one plain word: the parser runs the field's analyzer over the
\* word; no token left gives the null query, else a term query whose hits
\* are the records with that index term.  limit=None: every hit is returned.
\* The hits are kept as a bag, their order by score is left out.
search_index(exists, st, query_str) ==
    LET terms == Analyze(query_str)
        Matches(r) == terms[1] \in Range(Analyze(r.content))
        found == BagSelect(st, Matches)
    IN  IF ~exists \/ terms = <<>> THEN EmptyBag
        ELSE [h \in {Hit(r, <<terms[1]>>) : r \in DOMAIN found} |-> found[RecordOf(h)]]

Queries == {Chars("world"), Chars("hello"), Chars("Hello"), Chars("the")}

\* search_index reading what the open writer has buffered as well.
SearchSeesPending(q) ==
    /\ pc \in {"idle", "done", "index", "commit"}
    /\ query' = q
    /\ hits' = search_index(indexExists,
                            Committed(store, [del |-> pendingDel, add |-> pendingAdd]), q)
    /\ UNCHANGED <<envVars, indexVars, passVars, traceVars, groupVars, hlVars, idVars>>

\* A reader may call at any moment; the calls are taken before the first
\* pass, after a pass, and while a writer is open: between the documents of
\* the indexing loop and before the commit.
Search(q) ==
    /\ pc \in {"idle", "done", "index", "commit"}
    /\ query' = q
    /\ hits' = search_index(indexExists, store, q)
    /\ UNCHANGED <<envVars, indexVars, passVars, traceVars, groupVars, hlVars, idVars>>

(***************************************************************************)
(* The indexer and its readers                                             *)
(***************************************************************************)
IdIdle == id_args = <<>> /\ line_ids = <<>>

PureIdle ==
    /\ matching_lines = <<>> /\ grouped_lines = <<>> /\ sorted_documents = <<>>
    /\ hl_text = <<>> /\ hl_terms = <<>> /\ highlighted_text = <<>>
    /\ IdIdle

PassIdle ==
    /\ error = "none"
    /\ xml_paths = <<>> /\ xmlIdx = 1 /\ image_dict = EmptyDict /\ documents = <<>>
    /\ meta = EmptyDict /\ new_meta = EmptyDict /\ docIdx = 1
    /\ new_doc_counter = 0 /\ skipped_doc_counter = 0 /\ new_line_counter = 0
    /\ pendingDel = {} /\ pendingAdd = EmptyBag
    /\ parsed = {} /\ parse_errors = {} /\ upserted = {} /\ skipped = {} /\ saved = FALSE
    /\ storeBefore = EmptyBag /\ metaBefore = NoMetaFile
    /\ quiet = FALSE /\ twoInRow = FALSE
    /\ query = NoQuery /\ hits = EmptyBag

IndexIdle ==
    /\ now = 0
    /\ mtime = [d \in Docs |-> 0]
    /\ indexExists = FALSE /\ store = EmptyBag /\ lockHeld = FALSE
    /\ metaFile = NoMetaFile

Init ==
    /\ files = [d \in Docs |-> IF d = "d1.xml" THEN "page" ELSE "nocoords"]
    /\ images \in {Docs, {"d1.xml"}}
    /\ IndexIdle
    /\ pc = "idle"
    /\ PassIdle
    /\ PureIdle

Next ==
    \/ StartPass
    \/ ParseDoc
    \/ LoadMeta
    \/ OpenWriter
    \/ IndexDoc
    \/ CommitOk
    \/ CommitFail
    \/ SaveOpen
    \/ SaveDump
    \/ ProcessExit
    \/ Optimize
    \/ \E d \in Docs, v \in Versions \cup {Absent} : Touch(d, v)
    \/ \E q \in Queries : Search(q)

Spec == Init /\ [][Next]_vars

(***************************************************************************)
(* group_lines_by_document and the ordering of perform_search              *)
(***************************************************************************)
GroupDocs == {"a.xml", "b.xml", "c.xml"}

\* The hits of a search, as far as grouping reads them; line_id tells the
\* hits of one document apart.
HitsOf(paths) ==
    [i \in DOMAIN paths |->
        [doc_path |-> paths[i], image_path |-> <<paths[i], "jpg">>, line_id |-> i]]

HitLists == {HitsOf(paths) : paths \in UNION {[1..n -> GroupDocs] : n \in 0..MaxHits}}

\* A dict keeps its keys in insertion order: a sequence of items.
KeyIndex(doc_dict, k) ==
    IF \E i \in DOMAIN doc_dict : doc_dict[i].key = k
    THEN CHOOSE i \in DOMAIN doc_dict : doc_dict[i].key = k
    ELSE 0

RECURSIVE GroupFrom(_, _, _)
GroupFrom(lines, i, doc_dict) ==
    IF i > Len(lines) THEN doc_dict
    ELSE LET line == lines[i]
             doc_path == line.doc_path
             with == IF KeyIndex(doc_dict, doc_path) = 0
                     THEN Append(doc_dict, [key |-> doc_path,
                                            image_path |-> line.image_path,
                                            lines |-> <<>>, num_lines |-> 0])
                     ELSE doc_dict
             at == KeyIndex(with, doc_path)
         IN  GroupFrom(lines, i + 1,
                       [with EXCEPT ![at].lines = Append(@, line),
                                    ![at].num_lines = @ + 1])

group_lines_by_document(lines) == GroupFrom(lines, 1, <<>>)

\* A descending sort that puts an item before the items with its key:
\* items with equal keys come out in reverse order.
RECURSIVE InsertBeforeEqual(_, _)
InsertBeforeEqual(sorted, item) ==
    IF sorted = <<>> THEN <<item>>
    ELSE IF Head(sorted).num_lines > item.num_lines
         THEN <<Head(sorted)>> \o InsertBeforeEqual(Tail(sorted), item)
         ELSE <<item>> \o sorted

\* sorted(items, key=num_lines, reverse=True): a stable sort, items with
\* equal keys keep their order.  An item goes behind every item whose key
\* is at least its own.
RECURSIVE InsertByCount(_, _)
InsertByCount(sorted, item) ==
    IF sorted = <<>> THEN <<item>>
    ELSE IF Head(sorted).num_lines >= item.num_lines
         THEN <<Head(sorted)>> \o InsertByCount(Tail(sorted), item)
         ELSE <<item>> \o sorted

RECURSIVE SortFrom(_, _, _)
SortFrom(items, i, sorted) ==
    IF i > Len(items) THEN sorted
    ELSE SortFrom(items, i + 1, InsertByCount(sorted, items[i]))

sorted_by_num_lines(items) == SortFrom(items, 1, <<>>)

\* perform_search, lines 228-245, on the hits it got from search_index.
GroupAndSort ==
    /\ pc = "hits"
    /\ IF matching_lines = <<>>
       THEN UNCHANGED <<grouped_lines, sorted_documents>>
       ELSE /\ grouped_lines' = group_lines_by_document(matching_lines)
            /\ sorted_documents' = sorted_by_num_lines(grouped_lines')
    /\ pc' = "shown"
    /\ UNCHANGED <<envVars, indexVars, error, xml_paths, xmlIdx, image_dict, documents, meta,
                   new_meta, docIdx, new_doc_counter, skipped_doc_counter,
                   new_line_counter, pendingDel, pendingAdd, traceVars, searchVars,
                   matching_lines, hlVars, idVars>>

InitGroup ==
    /\ files = [d \in Docs |-> Absent]
    /\ images = {}
    /\ IndexIdle
    /\ pc = "hits"
    /\ PassIdle
    /\ matching_lines \in HitLists
    /\ grouped_lines = <<>> /\ sorted_documents = <<>>
    /\ hl_text = <<>> /\ hl_terms = <<>> /\ highlighted_text = <<>>
    /\ IdIdle

NextGroup == GroupAndSort

SpecGroup == InitGroup /\ [][NextGroup]_vars

(***************************************************************************)
(* highlight_matched_terms                                                 *)
(***************************************************************************)
\* html.escape(c) with quote=True, character by character.
EscapeChar(c) ==
    CASE c = "&" -> <<"&","a","m","p",";">>
      [] c = "<" -> <<"&","l","t",";">>
      [] c = ">" -> <<"&","g","t",";">>
      [] c = "\"" -> <<"&","q","u","o","t",";">>
      [] c = "'" -> <<"&","#","x","2","7",";">>
      [] OTHER -> <<c>>

RECURSIVE escape(_)
escape(text) == IF text = <<>> THEN <<>> ELSE EscapeChar(Head(text)) \o escape(Tail(text))

\* sorted(set(matched_terms), key=len, reverse=True): the orders of the
\* distinct terms with no shorter term before a longer one.  A set has no
\* order of its own, so terms of one length may come either way.
UniqueTermOrders(matched_terms) ==
    LET S == Range(matched_terms)
    IN  {o \in [1..Cardinality(S) -> S] :
            /\ \A i, j \in DOMAIN o : i # j => o[i] # o[j]
            /\ \A i, j \in DOMAIN o : i < j => Len(o[i]) >= Len(o[j])}

\* The assertion \b at the gap before position i.
WordAt(text, i) == i >= 1 /\ i <= Len(text) /\ IsWordChar(text[i])

Boundary(text, i) == WordAt(text, i - 1) # WordAt(text, i)

\* A term, taken literally (re.escape) and ignoring case, at position i.
TermAt(text, i, term) ==
    /\ i + Len(term) - 1 <= Len(text)
    /\ \A k \in 1..Len(term) : lower(text[i + k - 1]) = lower(term[k])

\* The pattern \b(t1|t2|...)\b at position i: the first alternative that
\* matches with a word boundary on both sides, 0 when none does.
AlternativeAt(text, i, terms) ==
    LET ok == {n \in DOMAIN terms :
                  Boundary(text, i) /\ TermAt(text, i, terms[n])
                                    /\ Boundary(text, i + Len(terms[n]))}
    IN  IF ok = {} THEN 0 ELSE CHOOSE n \in ok : \A m \in ok : n <= m

StrongOpen == <<"<","s","t","r","o","n","g",">">>
StrongClose == <<"<","/","s","t","r","o","n","g",">">>

\* re.sub(pattern, repl, text): the matches from left to right, none
\* overlapping another, each replaced by itself inside <strong> tags.
RECURSIVE SubFrom(_, _, _)
SubFrom(text, i, terms) ==
    IF i > Len(text) THEN <<>>
    ELSE LET n == AlternativeAt(text, i, terms)
         IN  IF n = 0 THEN <<text[i]>> \o SubFrom(text, i + 1, terms)
             ELSE StrongOpen \o SubSeq(text, i, i + Len(terms[n]) - 1) \o StrongClose
                  \o SubFrom(text, i + Len(terms[n]), terms)

highlight_matched_terms(text, matched_terms, unique_terms) ==
    IF matched_terms = <<>> THEN text
    ELSE SubFrom(escape(text), 1, unique_terms)

\* Contents and matched terms handed to the function.
HLTexts == { <<"T","h","e"," ","c","a","t"," ","s","a","t">>,
             <<"c","a","t","e","g","o","r","y">>,
             <<"C","a","t"," ","c","a","t","e","g","o","r","y",","," ","c","a","t">>,
             <<"a","m","p"," ","&"," ","c","o">>,
             <<"a","<","b"," ","s","a","t">> }

HLTerms == { <<"c","a","t">>,
             <<"c","a","t","e","g","o","r","y">>,
             <<"s","a","t">>,
             <<"a","m","p">> }

Highlight ==
    /\ pc = "text"
    /\ \E unique_terms \in UniqueTermOrders(hl_terms) :
          highlighted_text' = highlight_matched_terms(hl_text, hl_terms, unique_terms)
    /\ pc' = "highlighted"
    /\ UNCHANGED <<envVars, indexVars, error, xml_paths, xmlIdx, image_dict, documents, meta,
                   new_meta, docIdx, new_doc_counter, skipped_doc_counter,
                   new_line_counter, pendingDel, pendingAdd, traceVars, searchVars,
                   groupVars, hl_text, hl_terms, idVars>>

InitHL ==
    /\ files = [d \in Docs |-> Absent]
    /\ images = {}
    /\ IndexIdle
    /\ pc = "text"
    /\ PassIdle
    /\ matching_lines = <<>> /\ grouped_lines = <<>> /\ sorted_documents = <<>>
    /\ hl_text \in HLTexts
    /\ hl_terms \in UNION {[1..n -> HLTerms] : n \in 0..MaxTerms}
    /\ highlighted_text = <<>>
    /\ IdIdle

NextHL == Highlight

SpecHL == InitHL /\ [][NextHL]_vars

(***************************************************************************)
(* generate_line_id on its own                                             *)
(***************************************************************************)
\* Lists of points as parse_pagexml builds them (tuples of integers, one
\* per point of the Coords attribute), among them lists that differ in one
\* vertex, in how the numbers are grouped, or in a sign.
IdPolys == { <<>>,
             << <<0, 0>> >>,
             << <<0, 0>>, <<10, 10>> >>,
             << <<0, 0>>, <<10, 11>> >>,
             << <<0, 0, 10, 10>> >>,
             << <<0, 0>>, <<10>>, <<10>> >>,
             << <<1, 23>> >>,
             << <<12, 3>> >>,
             << <<1>>, <<23>> >>,
             << <<-1, 2>> >>,
             << <<1, -2>> >> }

IdArgs == [doc_path : Docs, coords : IdPolys]

GenerateIds ==
    /\ pc = "args"
    /\ line_ids' = [i \in DOMAIN id_args |->
                       generate_line_id(id_args[i].doc_path, id_args[i].coords)]
    /\ pc' = "ids"
    /\ UNCHANGED <<envVars, indexVars, error, xml_paths, xmlIdx, image_dict, documents, meta,
                   new_meta, docIdx, new_doc_counter, skipped_doc_counter,
                   new_line_counter, pendingDel, pendingAdd, traceVars, searchVars,
                   groupVars, hlVars, id_args>>

InitId ==
    /\ files = [d \in Docs |-> Absent]
    /\ images = {}
    /\ IndexIdle
    /\ pc = "args"
    /\ PassIdle
    /\ matching_lines = <<>> /\ grouped_lines = <<>> /\ sorted_documents = <<>>
    /\ hl_text = <<>> /\ hl_terms = <<>> /\ highlighted_text = <<>>
    /\ id_args \in [1..2 -> IdArgs]
    /\ line_ids = <<>>

NextId == GenerateIds

SpecId == InitId /\ [][NextId]_vars

(***************************************************************************)
(* Properties of a build pass                                              *)
(***************************************************************************)
\* Documents that stayed in the list get_lines_from_documents returned.
Retained == {documents[i].path : i \in DOMAIN documents}

\* The parsed lines of the documents the finished pass upserted.
UpsertedLines ==
    UNION {{[doc_path |-> documents[i].path, line |-> documents[i].lines[j]] :
               j \in DOMAIN documents[i].lines} :
           i \in {k \in DOMAIN documents : documents[k].path \in upserted}}

IdOf(ul) == generate_line_id(ul.doc_path, ul.line.coords)

WithId(st, id) == {r \in DOMAIN st : r.line_id = id}

CopiesWithId(st, id) == BagCardinality(BagSelect(st, LAMBDA r : r.line_id = id))

\* The entry of a document in index_meta.json: <<t>>, or <<>> when there
\* is none.
Entry(f, d) ==
    IF f.state = "complete" /\ d \in DOMAIN f.data THEN <<f.data[d]>> ELSE <<>>

EntryChanged(d) == Entry(metaFile, d) # Entry(metaBefore, d)

\* C1: a document that a pass skips as unchanged (its recorded entry is not
\* older than its mtime) was neither parsed nor upserted in that pass.
C1_SkippedNeitherParsedNorUpserted ==
    \A d \in skipped : d \notin parsed /\ d \notin upserted

\* C2: a pass that follows a completed pass, the corpus unchanged since that
\* pass began, leaves the store as it was, counts no document and no line,
\* and does not write the metadata file.
C2_SecondPassIsIdle ==
    (pc = "done" /\ twoInRow /\ quiet) =>
        /\ store = storeBefore
        /\ new_doc_counter = 0 /\ new_line_counter = 0
        /\ ~saved /\ metaFile = metaBefore

C2_Witness ==
    /\ pc = "done" /\ twoInRow /\ quiet
    /\ skipped_doc_counter = 2 /\ BagCardinality(store) = 4

\* C3: when a finished pass re-indexed a document one of whose lines was in
\* the store under the same line_id with another content, the store holds
\* exactly one record with that line_id, with the new content, and no more
\* records with that line_id than before.
C3_OneRecordWithNewContent ==
    pc = "done" =>
        \A ul \in UpsertedLines :
            (\E r \in WithId(storeBefore, IdOf(ul)) : r.content # ul.line.transcription) =>
                /\ CopiesWithId(store, IdOf(ul)) = 1
                /\ \A r \in WithId(store, IdOf(ul)) : r.content = ul.line.transcription
                /\ CopiesWithId(store, IdOf(ul)) <= CopiesWithId(storeBefore, IdOf(ul))

C5_FailedCommitLeavesNoTrace ==
    (pc = "failed" /\ error = "WriteError") =>
        /\ store = storeBefore
        /\ metaFile = metaBefore /\ ~saved
        /\ \A d \in upserted : ~Unchanged(load_index_meta(metaFile), d, mtime[d])

C5_Witness ==
    /\ pc = "failed" /\ error = "WriteError"
    /\ Cardinality(upserted) = 2 /\ store # EmptyBag

\* C6: the metadata file is never empty, cut off or partly written, so a
\* load at any moment gets the old mapping or the new one.
C6_MetaFileNeverPartial == ~load_raises(metaFile)

\* Failures of a pass that are not a document's parse failing.
OtherFailures == {"JSONDecodeError", "LockError", "FileNotFoundError", "WriteError", "killed"}

\* The document is on disk with lines and an image, and is new or changed
\* since the metadata the pass loaded.
DueForIndexing(d) ==
    /\ files[d] # Absent /\ ~parse_raises(files[d])
    /\ parse_pagexml(files[d]) # <<>>
    /\ d \in images
    /\ ~Unchanged(load_index_meta(metaBefore), d, mtime[d])

HasRecord(st, doc_path, line) ==
    \E r \in DOMAIN st :
        /\ r.doc_path = doc_path /\ r.coords = line.coords
        /\ r.content = line.transcription

\* C12: in a pass where the parse of a document raised (no file written
\* since the pass began), the pass does not end on that failure, and when it
\* has returned every other document that is due was upserted, its lines
\* are stored and its metadata entry is recorded with its mtime.
C12_ParseFailureIsIsolated ==
    (parse_errors # {} /\ quiet) =>
        /\ pc = "failed" => error \in OtherFailures
        /\ pc = "done" =>
              \A d \in Docs \ parse_errors :
                  DueForIndexing(d) =>
                      /\ d \in upserted /\ saved
                      /\ Entry(metaFile, d) = <<mtime[d]>>
                      /\ \A i \in DOMAIN parse_pagexml(files[d]) :
                            HasRecord(store, d, parse_pagexml(files[d])[i])

C12_Witness ==
    /\ pc = "done" /\ quiet /\ saved
    /\ parse_errors = {"d1.xml"} /\ upserted = {"d2.xml"}
    /\ Entry(metaFile, "d2.xml") = <<mtime["d2.xml"]>>
    /\ Entry(metaFile, "d1.xml") = <<>>

(***************************************************************************)
(* Properties of search_index                                              *)
(***************************************************************************)
\* The words of a text as written, and with their case folded.
Tokenized == [t \in KnownTexts |-> Tokenize(t)]

Words(text) == Range(IF text \in KnownTexts THEN Tokenized[text] ELSE Tokenize(text))

FoldedWords(text) == {LowerStr(w) : w \in Words(text)}

Found(ul) ==
    \E h \in DOMAIN hits : h.line_id = IdOf(ul) /\ h.content = ul.line.transcription

\* C7 as stated: after a pass, every line it indexed whose content contains
\* the queried word is among the hits.
C7_EveryLineWithTheWordIsHit ==
    (pc = "done" /\ query # NoQuery) =>
        \A ul \in UpsertedLines : query \in Words(ul.line.transcription) => Found(ul)

\* C7 as amended: after a pass, every line it indexed whose content
\* contains the queried word, case ignored, is among the hits, provided the
\* word is one the analyzer keeps: two characters or more and no stop word.
C7_EveryLineWithAKeptWordIsHit ==
    (pc = "done" /\ query # NoQuery /\ KeptByStopFilter(LowerStr(query))) =>
        \A ul \in UpsertedLines :
            LowerStr(query) \in FoldedWords(ul.line.transcription) => Found(ul)

C7_Witness ==
    /\ pc = "done" /\ query = Chars("hello")
    /\ \E ul \in UpsertedLines :
          /\ Chars("Hello") \in Words(ul.line.transcription)
          /\ Found(ul)

\* The corpus of one document with the lines "hello world" and
\* "goodbye world".
TwoLineStore ==
    LET lines == parse_pagexml("page")
    IN  SetToBag({Record("d1.xml", generate_line_id("d1.xml", lines[i].coords),
                         lines[i].transcription, lines[i].coords, ImageOf("d1.xml")) :
                  i \in DOMAIN lines})

\* C8 as stated: every hit's content contains the queried word, every
\* stored record whose content contains it is returned once, and every
\* hit's matched_terms is the set of that word.
C8_HitsAreTheRecordsWithTheWord ==
    query # NoQuery =>
        /\ \A h \in DOMAIN hits :
              /\ query \in Words(h.content)
              /\ Range(h.matched_terms) = {query}
        /\ \A r \in DOMAIN store :
              query \in Words(r.content) =>
                  \E h \in DOMAIN hits : RecordOf(h) = r /\ hits[h] = store[r]

\* C8 as amended: for a word the analyzer keeps, the hits are the stored
\* records whose content contains the word, case ignored, each as often as
\* it is stored, and every hit's matched_terms is the set of the lowercased
\* word; for a word the analyzer drops there is no hit.  On the two-line
\* corpus "world" has 2 hits and "hello" has 1.
C8_HitsAreTheRecordsWithTheFoldedWord ==
    (query # NoQuery /\ indexExists) =>
        LET term == LowerStr(query)
        IN  /\ ~KeptByStopFilter(term) => hits = EmptyBag
            /\ \A h \in DOMAIN hits :
                  /\ RecordOf(h) \in DOMAIN store
                  /\ hits[h] = store[RecordOf(h)]
                  /\ term \in FoldedWords(h.content)
                  /\ Range(h.matched_terms) = {term}
            /\ KeptByStopFilter(term) =>
                  \A r \in DOMAIN store :
                      term \in FoldedWords(r.content) =>
                          \E h \in DOMAIN hits : RecordOf(h) = r
            /\ (store = TwoLineStore /\ query = Chars("world")) => BagCardinality(hits) = 2
            /\ (store = TwoLineStore /\ query = Chars("hello")) => BagCardinality(hits) = 1

C8_Witness ==
    /\ store = TwoLineStore /\ query = Chars("world") /\ BagCardinality(hits) = 2

(***************************************************************************)
(* Properties of grouping                                                  *)
(***************************************************************************)
PathsOf(lines) == {lines[i].doc_path : i \in DOMAIN lines}

FirstSeen(lines, p) ==
    CHOOSE i \in DOMAIN lines :
        lines[i].doc_path = p /\ \A j \in 1..(i - 1) : lines[j].doc_path # p

RECURSIVE SumNumLines(_)
SumNumLines(groups) ==
    IF groups = <<>> THEN 0 ELSE Head(groups).num_lines + SumNumLines(Tail(groups))

\* C9: there is one group per document of the hits; a group's lines are the
\* document's hits in their order and num_lines is their number, so the
\* num_lines add up to the number of hits; the sorted groups are the same
\* groups, a group with more lines before one with fewer, and of two groups
\* with as many lines the one whose document was seen first comes first.
C9_GroupedAndOrdered ==
    (pc = "shown" /\ matching_lines # <<>>) =>
        /\ Len(grouped_lines) = Cardinality(PathsOf(matching_lines))
        /\ {grouped_lines[i].key : i \in DOMAIN grouped_lines} = PathsOf(matching_lines)
        /\ \A i \in DOMAIN grouped_lines :
              /\ grouped_lines[i].lines =
                    SelectSeq(matching_lines, LAMBDA h : h.doc_path = grouped_lines[i].key)
              /\ grouped_lines[i].num_lines = Len(grouped_lines[i].lines)
        /\ SumNumLines(grouped_lines) = Len(matching_lines)
        /\ Len(sorted_documents) = Len(grouped_lines)
        /\ Range(sorted_documents) = Range(grouped_lines)
        /\ \A i, j \in DOMAIN sorted_documents :
              i < j =>
                 \/ sorted_documents[i].num_lines > sorted_documents[j].num_lines
                 \/ /\ sorted_documents[i].num_lines = sorted_documents[j].num_lines
                    /\ FirstSeen(matching_lines, sorted_documents[i].key)
                         < FirstSeen(matching_lines, sorted_documents[j].key)

C9_Witness ==
    /\ pc = "shown" /\ Len(sorted_documents) = 3
    /\ sorted_documents[1] = grouped_lines[3]
    /\ sorted_documents[1].num_lines = 3
    /\ sorted_documents[2].num_lines = 1 /\ sorted_documents[3].num_lines = 1

(***************************************************************************)
(* Properties of highlighting                                              *)
(***************************************************************************)
StartsWith(s, i, pre) ==
    i + Len(pre) - 1 <= Len(s) /\ SubSeq(s, i, i + Len(pre) - 1) = pre

\* The texts inside <strong> tags, in order.
RECURSIVE SpansFrom(_, _, _, _)
SpansFrom(s, i, open, cur) ==
    IF i > Len(s) THEN <<>>
    ELSE IF StartsWith(s, i, StrongOpen)
         THEN SpansFrom(s, i + Len(StrongOpen), TRUE, <<>>)
    ELSE IF StartsWith(s, i, StrongClose)
         THEN (IF open THEN <<cur>> ELSE <<>>)
              \o SpansFrom(s, i + Len(StrongClose), FALSE, <<>>)
    ELSE SpansFrom(s, i + 1, open, IF open THEN Append(cur, s[i]) ELSE cur)

Wrapped(markup) == SpansFrom(markup, 1, FALSE, <<>>)

\* A <strong> opens inside an open <strong>.
RECURSIVE NestedFrom(_, _, _)
NestedFrom(s, i, open) ==
    IF i > Len(s) THEN FALSE
    ELSE IF StartsWith(s, i, StrongOpen)
         THEN open \/ NestedFrom(s, i + Len(StrongOpen), TRUE)
    ELSE IF StartsWith(s, i, StrongClose)
         THEN NestedFrom(s, i + Len(StrongClose), FALSE)
    ELSE NestedFrom(s, i + 1, open)

\* The whole-word occurrences of the terms in the content itself, case
\* ignored, from left to right, a longer term before a shorter one.
RECURSIVE OccurrencesFrom(_, _, _)
OccurrencesFrom(content, i, terms) ==
    IF i > Len(content) THEN <<>>
    ELSE LET n == AlternativeAt(content, i, terms)
         IN  IF n = 0 THEN OccurrencesFrom(content, i + 1, terms)
             ELSE <<SubSeq(content, i, i + Len(terms[n]) - 1)>>
                  \o OccurrencesFrom(content, i + Len(terms[n]), terms)

Occurrences(content, matched_terms) ==
    OccurrencesFrom(content, 1,
                    CHOOSE o \in UniqueTermOrders(matched_terms) : TRUE)

\* C10: what the markup wraps is the whole-word occurrences of the matched
\* terms in the content, case ignored, each once and nothing else, and no
\* <strong> is inside another.
C10_WrapsTheOccurrencesOnly ==
    pc = "highlighted" =>
        /\ Wrapped(highlighted_text) = Occurrences(hl_text, hl_terms)
        /\ ~NestedFrom(highlighted_text, 1, FALSE)

\* The markup with every <strong> and </strong> taken out.
RECURSIVE WithoutTags(_, _)
WithoutTags(s, i) ==
    IF i > Len(s) THEN <<>>
    ELSE IF StartsWith(s, i, StrongOpen) THEN WithoutTags(s, i + Len(StrongOpen))
    ELSE IF StartsWith(s, i, StrongClose) THEN WithoutTags(s, i + Len(StrongClose))
    ELSE <<s[i]>> \o WithoutTags(s, i + 1)

RawChars == {"<", ">", "&"}

\* C11: for every content and every list of matched terms, the empty one
\* included, the markup without its emphasis tags is the escaped content,
\* and where the content has a raw <, > or & the markup differs from it.
C11_MarkupIsEscapedContent ==
    pc = "highlighted" =>
        /\ WithoutTags(highlighted_text, 1) = escape(hl_text)
        /\ (Range(hl_text) \cap RawChars # {}) => highlighted_text # hl_text

(***************************************************************************)
(* Properties of generate_line_id                                          *)
(***************************************************************************)
\* C13: generate_line_id returns an id for every document path and list of
\* points, the empty list included; two calls return the same id exactly
\* when they are given the same path and the same points.
C13_IdIsAFunctionAndInjective ==
    pc = "ids" =>
        /\ DOMAIN line_ids = DOMAIN id_args
        /\ (line_ids[1] = line_ids[2]) <=> (id_args[1] = id_args[2])
        /\ (coords_str(id_args[1].coords) = coords_str(id_args[2].coords))
              <=> (id_args[1].coords = id_args[2].coords)

C13_Witness ==
    /\ pc = "ids"
    /\ id_args[1] = [doc_path |-> "d1.xml", coords |-> << <<0, 0>>, <<10, 10>> >>]
    /\ id_args[2] = [doc_path |-> "d1.xml", coords |-> << <<0, 0>>, <<10, 11>> >>]
    /\ line_ids[1] # line_ids[2]
    /\ line_ids[1] = generate_line_id("d1.xml", PolyA)

(***************************************************************************)
(* Properties of a search during a pass                                    *)
(***************************************************************************)
\* The writer of the running pass, with what it has buffered.
Pending == [del |-> pendingDel, add |-> pendingAdd]

\* C14: a search that returns while the pass has its writer open returns
\* what it would have returned before the pass, whatever the writer has
\* buffered; a search that returns after the pass has upserted and returned
\* returns the hits of the store with all of the pass's upserts applied.
C14_SearchSeesNoneOrAll ==
    query # NoQuery =>
        /\ pc \in {"index", "commit"} =>
              hits = search_index(indexExists, storeBefore, query)
        /\ (pc = "done" /\ upserted # {}) =>
              hits = search_index(indexExists, Committed(storeBefore, Pending), query)

C14_Witness ==
    /\ pc = "index" /\ docIdx = 2 /\ upserted = {"d1.xml"}
    /\ query = Chars("hello")
    /\ storeBefore # EmptyBag
    /\ hits # search_index(indexExists, Committed(store, Pending), query)

(***************************************************************************)
(* Properties of the writer                                                *)
(***************************************************************************)
\* C15: when update_index has returned or raised, the writer it opened is
\* committed or cancelled, so the write lock is free, and no pass of the
\* process fails to open its writer.
C15_WriterReleasedOnExit ==
    /\ Resting => ~lockHeld
    /\ error # "LockError"

(***************************************************************************)
(* Properties of the store over the passes                                 *)
(***************************************************************************)
StoredIds(st) == {r.line_id : r \in DOMAIN st}

\* The ids of the lines the running pass has upserted.
UpsertedIds == {IdOf(ul) : ul \in UpsertedLines}

\* The records under a line_id that no line of the document's file has.
Stale(st) ==
    {r \in DOMAIN st :
        \/ files[r.doc_path] = Absent
        \/ parse_raises(files[r.doc_path])
        \/ \A i \in DOMAIN parse_pagexml(files[r.doc_path]) :
              generate_line_id(r.doc_path, parse_pagexml(files[r.doc_path])[i].coords)
                  # r.line_id}

\* C16: no step of a pass and no optimize call takes a line_id out of the
\* store; when a pass has returned, the records it found in the store under
\* ids it did not upsert are there as they were, among them the records of
\* lines whose polygon has changed or that are gone, and a query returns
\* those as it returns any record.
C16_StaleIdsStay ==
    /\ [][StoredIds(store) \subseteq StoredIds(store')]_vars
    /\ [](pc = "done" =>
            /\ \A r \in DOMAIN storeBefore :
                  r.line_id \notin UpsertedIds => r \in DOMAIN store /\ store[r] = storeBefore[r]
            /\ query # NoQuery =>
                  \A r \in Stale(store) :
                      LowerStr(query) \in Range(Analyze(r.content)) =>
                          \E h \in DOMAIN hits : RecordOf(h) = r)

C16_Witness ==
    /\ pc = "done" /\ upserted = {"d1.xml"} /\ files["d1.xml"] = "edited"
    /\ query = Chars("world")
    /\ \E r \in Stale(store) :
          /\ r.coords = PolyB /\ r.line_id \in StoredIds(storeBefore)
          /\ \E h \in DOMAIN hits : RecordOf(h) = r
    /\ \E r \in DOMAIN store : r.coords = PolyC

(***************************************************************************)
(* Properties of the metadata against the store                            *)
(***************************************************************************)
\* Every line of the document's file has its record in the store.
StoredAsOnDisk(d) ==
    \A i \in DOMAIN parse_pagexml(files[d]) :
        HasRecord(store, d, parse_pagexml(files[d])[i])

\* C17: whenever index_meta.json maps a document to the mtime its file
\* has, the store holds the records of the lines of that file; so a
\* document that a pass skips as unchanged has the lines of its file stored.
C17_MetadataNotAheadOfStore ==
    \A d \in Docs :
        (files[d] # Absent /\ ~parse_raises(files[d])) =>
            /\ Entry(metaFile, d) = <<mtime[d]>> => StoredAsOnDisk(d)
            /\ (pc = "done" /\ quiet /\ d \in skipped) => StoredAsOnDisk(d)

(***************************************************************************)
(* Properties of the records of one pass                                   *)
(***************************************************************************)
\* The number of lines of the documents the pass has upserted.
RECURSIVE LinesUpserted(_)
LinesUpserted(docs) ==
    IF docs = <<>> THEN 0
    ELSE (IF Head(docs).path \in upserted THEN Len(Head(docs).lines) ELSE 0)
         + LinesUpserted(Tail(docs))

\* C18: after a pass that returned, every document it upserted has as many
\* distinct line_ids as parsed lines, each line has a stored record with its
\* content under its own id, and the count of lines written is the number
\* of lines of the upserted documents.
C18_OneRecordPerLine ==
    pc = "done" =>
        /\ \A i \in DOMAIN documents :
              documents[i].path \in upserted =>
                  Cardinality({generate_line_id(documents[i].path, documents[i].lines[j].coords) :
                                  j \in DOMAIN documents[i].lines})
                      = Len(documents[i].lines)
        /\ \A ul \in UpsertedLines :
              /\ CopiesWithId(store, IdOf(ul)) = 1
              /\ \A r \in WithId(store, IdOf(ul)) : r.content = ul.line.transcription
        /\ new_line_counter = LinesUpserted(documents)

====
